---- MODULE Spec2Model ----
(***************************************************************************)
(* FSCMoodlet (components/Moodlet): three buttons, one per FSCAction, each *)
(* holding an FSCState kept in a React useState hook.  A click handler     *)
(* queues a state update and notifies onChange; React applies the queued   *)
(* updates when it next renders the component.                             *)
(***************************************************************************)
EXTENDS Integers, Sequences, FiniteSets, TLC

\* ---------------------------------------------------------------- bounds
\* events dispatched to one component instance
MaxEvents == 3
\* handlers that run before React renders the component again
MaxBatch == 2

\* ----------------------------------------------------------------- types
FSCState == {"NOT_REQUIRED", "REQUIRED", "CURRENT", "COMPLETED"}

FSCAction == {"FUELLING", "SERVICING", "CLEANING"}

\* a property of initialStates written with the value undefined
Undefined == "undefined"

\* a property of initialStates that is not written at all
Absent == "absent"

\* Partial<Record<FSCAction, FSCState>>: every key is optional, and an
\* optional key may be written with the value undefined
InitialStatesProp == [FSCAction -> FSCState \cup {Undefined, Absent}]

\* what onChange has been called with last; NoCall before the first call
NoCall == [item |-> "none", newState |-> "none"]

\* no onChange call for an Action yet
NotNotified == "none"

\* variant?: 'letter' | 'word'
Variant == {"letter", "word"}

\* values of the variables outside a specification's scope
NoApp == <<>>

NotJoined == "not joined"

VARIABLES
    initialStates,      \* prop initialStates
    disabled,           \* prop disabled
    onChangeProvided,   \* prop onChange is a function (TRUE) or undefined
    mounted,            \* the first render returned; FALSE: it threw
    states,             \* useState value of the last render
    queue,              \* setStates updaters queued since the last render
    nEvents,            \* click / contextmenu events handled
    nAccepted,          \* events handled past the disabled guard
    nCalls,             \* onChange invocations
    lastCall,           \* arguments of the latest onChange invocation
    variant,            \* prop variant
    notified,           \* per Action, the State of its latest onChange call
    app,                \* the moodlets of App, one record each
    classes,            \* arguments of a joinClassNames call
    joined              \* result of that call

\* what lies outside the single moodlet
outside == <<app, classes, joined>>

vars == <<initialStates, disabled, onChangeProvided, mounted, states, queue,
          nEvents, nAccepted, nCalls, lastCall, variant, notified, outside>>

\* ------------------------------------------------------------ construction
DefaultStates == [a \in FSCAction |-> "REQUIRED"]

\* { FUELLING: .., SERVICING: .., CLEANING: .., ...initialStates }: the
\* spread copies every own property of initialStates, undefined values too
InitializeStates(init) ==
    [a \in FSCAction |-> IF init[a] = Absent THEN DefaultStates[a] ELSE init[a]]

\* renderMoodlet evaluates state.replace('_', ' '), a TypeError on undefined
RenderThrows(st) == \E a \in FSCAction : st[a] = Undefined

\* ------------------------------------------------------------- transitions
stateFlow ==
    [s \in FSCState \cup {Undefined} |->
        CASE s = "NOT_REQUIRED" -> "REQUIRED"
          [] s = "REQUIRED"     -> "CURRENT"
          [] s = "CURRENT"      -> "COMPLETED"
          [] s = "COMPLETED"    -> "CURRENT"
          [] OTHER              -> Undefined]

\* variant: COMPLETED wraps round to the start of the flow
getNextState_FullCycle(currentState) ==
    IF currentState = "COMPLETED" THEN "NOT_REQUIRED" ELSE stateFlow[currentState]

\* variant: COMPLETED is final
getNextState_Sticky(currentState) ==
    IF currentState = "COMPLETED" THEN "COMPLETED" ELSE stateFlow[currentState]

getNextState(currentState) ==
    IF currentState = "COMPLETED" THEN "CURRENT" ELSE stateFlow[currentState]

\* variant: the isRightClick branch is missing
NewState_IgnoreRight(item, isRightClick) == getNextState(states[item])

\* the handler's local newState
NewState(item, isRightClick) ==
    IF isRightClick THEN "NOT_REQUIRED" ELSE getNextState(states[item])

\* variant: the disabled guard is missing
Accepted_NoGuard == TRUE

\* if (disabled) return;
Accepted == ~disabled

\* variant: ({ ...states, [item]: newState }), the rendered snapshot spread
\* in place of prev
ApplyUpdate_Stale(prev, u) == [states EXCEPT ![u.item] = u.newState]

\* variant: ({ ...prev, item: newState }), a literal key named item
ApplyUpdate_LiteralKey(prev, u) ==
    [k \in (DOMAIN prev) \cup {"item"} |-> IF k = "item" THEN u.newState ELSE prev[k]]

\* variant: (prev) => ({ ...prev, [item]: getNextState(prev[item]) }) on a
\* click, the next state taken from prev in place of the rendered snapshot
ApplyUpdate_FromPrev(prev, u) ==
    [prev EXCEPT ![u.item] = IF u.newState = "NOT_REQUIRED" THEN "NOT_REQUIRED"
                             ELSE getNextState(prev[u.item])]

\* (prev) => ({ ...prev, [item]: newState })
ApplyUpdate(prev, u) == [prev EXCEPT ![u.item] = u.newState]

RECURSIVE ApplyQueue(_, _)
ApplyQueue(prev, q) ==
    IF q = <<>> THEN prev
    ELSE ApplyQueue(ApplyUpdate(prev, Head(q)), Tail(q))

\* the StateMap once every queued update is applied
Pending == ApplyQueue(states, queue)

\* variant: onChange?.(item, states[item]), the state before the event
Notify_Stale(item, newState) ==
    IF onChangeProvided
    THEN /\ nCalls' = nCalls + 1
         /\ lastCall' = [item |-> item, newState |-> states[item]]
         /\ notified' = [notified EXCEPT ![item] = states[item]]
    ELSE UNCHANGED <<nCalls, lastCall, notified>>

\* onChange?.(item, newState)
Notify(item, newState) ==
    IF onChangeProvided
    THEN /\ nCalls' = nCalls + 1
         /\ lastCall' = [item |-> item, newState |-> newState]
         /\ notified' = [notified EXCEPT ![item] = newState]
    ELSE UNCHANGED <<nCalls, lastCall, notified>>

\* the function handleClick(item, isRightClick) returns, run on one event
handleClick(item, isRightClick) ==
    /\ mounted
    /\ nEvents < MaxEvents
    /\ Len(queue) < MaxBatch
    /\ nEvents' = nEvents + 1
    /\ IF Accepted
       THEN /\ queue' = Append(queue, [item |-> item,
                                      newState |-> NewState(item, isRightClick)])
            /\ nAccepted' = nAccepted + 1
            /\ Notify(item, NewState(item, isRightClick))
       ELSE UNCHANGED <<queue, nAccepted, nCalls, lastCall, notified>>
    /\ UNCHANGED <<initialStates, disabled, onChangeProvided, mounted, states,
                   variant, outside>>

\* onClick={handleClick(item)}
onClick(item) == handleClick(item, FALSE)

\* onContextMenu={handleClick(item, true)}
onContextMenu(item) == handleClick(item, TRUE)

\* React renders the component again: useState returns the queued updates
\* applied, in order, to the previous value
Render ==
    /\ mounted
    /\ queue # <<>>
    /\ states' = ApplyQueue(states, queue)
    /\ queue' = <<>>
    /\ UNCHANGED <<initialStates, disabled, onChangeProvided, mounted,
                   nEvents, nAccepted, nCalls, lastCall, variant, notified,
                   outside>>

\* the state of a moodlet constructed with the given props
Construct(init, v, d, cb) ==
    /\ initialStates = init
    /\ variant = v
    /\ disabled = d
    /\ onChangeProvided = cb
    /\ states = InitializeStates(init)
    /\ mounted = ~RenderThrows(states)
    /\ queue = <<>>
    /\ nEvents = 0
    /\ nAccepted = 0
    /\ nCalls = 0
    /\ lastCall = NoCall
    /\ notified = [a \in FSCAction |-> NotNotified]

\* nothing but one moodlet
NothingOutside ==
    /\ app = NoApp
    /\ classes = <<>>
    /\ joined = NotJoined

Init ==
    /\ initialStates \in InitialStatesProp
    /\ disabled \in BOOLEAN
    /\ onChangeProvided \in BOOLEAN
    /\ states = InitializeStates(initialStates)
    /\ mounted = ~RenderThrows(states)
    /\ queue = <<>>
    /\ nEvents = 0
    /\ nAccepted = 0
    /\ nCalls = 0
    /\ lastCall = NoCall
    /\ variant \in Variant
    /\ notified = [a \in FSCAction |-> NotNotified]
    /\ NothingOutside

Next ==
    \/ \E item \in FSCAction : onClick(item)
    \/ \E item \in FSCAction : onContextMenu(item)
    \/ Render

Spec == Init /\ [][Next]_vars

\* primary activations only
NextPrimary ==
    \/ \E item \in FSCAction : onClick(item)
    \/ Render

SpecPrimary == Init /\ [][NextPrimary]_vars

TypeOK ==
    /\ initialStates \in InitialStatesProp
    /\ disabled \in BOOLEAN
    /\ onChangeProvided \in BOOLEAN
    /\ mounted \in BOOLEAN
    /\ states \in [FSCAction -> FSCState \cup {Undefined}]
    /\ queue \in Seq([item : FSCAction, newState : FSCState \cup {Undefined}])
    /\ Len(queue) <= MaxBatch
    /\ nEvents \in 0..MaxEvents
    /\ nAccepted \in 0..MaxEvents
    /\ nCalls \in 0..MaxEvents
    /\ variant \in Variant
    /\ notified \in [FSCAction -> FSCState \cup {Undefined, NotNotified}]

\* ------------------------------------------------- renders with new props
\* the initialStates a parent passes in turn
SampleInitialStates ==
    { [a \in FSCAction |-> Absent],
      [a \in FSCAction |-> IF a = "SERVICING" THEN "CURRENT" ELSE Absent],
      [a \in FSCAction |->
          CASE a = "FUELLING"  -> "NOT_REQUIRED"
            [] a = "SERVICING" -> "REQUIRED"
            [] a = "CLEANING"  -> "CURRENT"] }

\* variant: the state is built from initialStates on every render
PropsRender_Resync(init, v, d, cb) ==
    /\ mounted
    /\ <<init, v, d, cb>> # <<initialStates, variant, disabled, onChangeProvided>>
    /\ initialStates' = init
    /\ variant' = v
    /\ disabled' = d
    /\ onChangeProvided' = cb
    /\ states' = InitializeStates(init)
    /\ queue' = <<>>
    /\ UNCHANGED <<mounted, nEvents, nAccepted, nCalls, lastCall, notified,
                   outside>>

\* the parent renders the moodlet with other props: the useState
\* initializer does not run again, the queued updates are applied
PropsRender(init, v, d, cb) ==
    /\ mounted
    /\ <<init, v, d, cb>> # <<initialStates, variant, disabled, onChangeProvided>>
    /\ initialStates' = init
    /\ variant' = v
    /\ disabled' = d
    /\ onChangeProvided' = cb
    /\ states' = ApplyQueue(states, queue)
    /\ queue' = <<>>
    /\ UNCHANGED <<mounted, nEvents, nAccepted, nCalls, lastCall, notified,
                   outside>>

InitProps ==
    /\ Init
    /\ initialStates \in SampleInitialStates

NextProps ==
    \/ Next
    \/ \E init \in SampleInitialStates, v \in Variant, d \in BOOLEAN, cb \in BOOLEAN :
          PropsRender(init, v, d, cb)

SpecProps == InitProps /\ [][NextProps]_vars

\* ---------------------------------------------------------- joinClassNames
\* filter(Boolean) keeps a class that is neither undefined nor ''
Truthy_DefinedOnly(c) == c # Undefined

Truthy(c) == c # Undefined /\ c # ""

\* Array.prototype.join: the elements, undefined as '', with sep in between
RECURSIVE Join(_, _)
Join(seq, sep) ==
    IF seq = <<>> THEN ""
    ELSE LET first == IF seq[1] = Undefined THEN "" ELSE seq[1]
         IN  IF Len(seq) = 1 THEN first
             ELSE first \o sep \o Join(Tail(seq), sep)

\* classes.filter(Boolean).join(' ')
joinClassNames(classes_) == Join(SelectSeq(classes_, Truthy), " ")

\* longest argument list of a joinClassNames call
MaxTokens == 3

\* the classes passed
Token == {Undefined, "", "a", "b", "cd"}

RECURSIVE SeqsUpTo(_, _)
SeqsUpTo(S, n) ==
    IF n = 0 THEN {<<>>}
    ELSE LET shorter == SeqsUpTo(S, n - 1)
         IN  shorter \cup {Append(q, x) : q \in shorter, x \in S}

\* one call of joinClassNames(...classes)
CallJoin ==
    /\ joined = NotJoined
    /\ joined' = joinClassNames(classes)
    /\ UNCHANGED <<initialStates, disabled, onChangeProvided, mounted, states,
                   queue, nEvents, nAccepted, nCalls, lastCall, variant,
                   notified, app, classes>>

InitJoin ==
    /\ Construct([a \in FSCAction |-> Absent], "letter", FALSE, FALSE)
    /\ app = NoApp
    /\ classes \in SeqsUpTo(Token, MaxTokens)
    /\ joined = NotJoined

NextJoin == CallJoin

SpecJoin == InitJoin /\ [][NextJoin]_vars

\* ------------------------------------------------------------------ styles
baseStyle == "transition-colors duration-200"

\* variant: COMPLETED styled as REQUIRED
styles_Duplicate ==
    [s \in FSCState |->
        CASE s = "NOT_REQUIRED" -> "bg-purple-100 text-purple-700 hover:bg-purple-200"
          [] s = "REQUIRED"     -> "bg-purple-200 text-purple-800 hover:bg-purple-300"
          [] s = "CURRENT"      -> "bg-red-200 text-red-800 hover:bg-red-300"
          [] s = "COMPLETED"    -> "bg-purple-200 text-purple-800 hover:bg-purple-300"]

styles ==
    [s \in FSCState |->
        CASE s = "NOT_REQUIRED" -> "bg-purple-100 text-purple-700 hover:bg-purple-200"
          [] s = "REQUIRED"     -> "bg-purple-200 text-purple-800 hover:bg-purple-300"
          [] s = "CURRENT"      -> "bg-red-200 text-red-800 hover:bg-red-300"
          [] s = "COMPLETED"    -> "bg-green-200 text-green-800 hover:bg-green-300"]

\* getStateStyle(state) in a moodlet whose prop disabled is d
getStateStyle(state, d) ==
    joinClassNames(<<baseStyle, styles[state],
                     IF d THEN "opacity-50 cursor-not-allowed" ELSE Undefined>>)

buttonSize(v) == IF v = "letter" THEN "w-8 h-8" ELSE "px-4 py-1"

\* className of the button renderMoodlet returns
ButtonClassName(state, v, d) ==
    joinClassNames(<<"rounded-full font-medium",
                     "focus:outline-none focus:ring-2 focus:ring-offset-2 focus:ring-purple-500",
                     buttonSize(v),
                     getStateStyle(state, d)>>)

\* --------------------------------------------------------------------- App
\* the three FSCMoodlet elements of App, in order
Instance == 1..3

AppProps ==
    [i \in Instance |->
        CASE i = 1 -> [variant |-> "letter", disabled |-> FALSE,
                       initialStates |->
                           [a \in FSCAction |->
                               CASE a = "FUELLING"  -> "REQUIRED"
                                 [] a = "SERVICING" -> "CURRENT"
                                 [] a = "CLEANING"  -> "COMPLETED"]]
          [] i = 2 -> [variant |-> "word", disabled |-> FALSE,
                       initialStates |->
                           [a \in FSCAction |->
                               CASE a = "FUELLING"  -> "NOT_REQUIRED"
                                 [] a = "SERVICING" -> "REQUIRED"
                                 [] a = "CLEANING"  -> "CURRENT"]]
          [] i = 3 -> [variant |-> "letter", disabled |-> TRUE,
                       initialStates |->
                           [a \in FSCAction |->
                               CASE a = "FUELLING"  -> "COMPLETED"
                                 [] a = "SERVICING" -> "CURRENT"
                                 [] a = "CLEANING"  -> "REQUIRED"]]]

\* variant: one state cell at module level, shared by every moodlet
Hook_Shared(i) == 1

\* the state cell useState gives the i-th moodlet: its own
Hook(i) == i

\* what renderMoodlet makes of getStateStyle for each button of a moodlet
RenderStyles(st, d) == [a \in FSCAction |-> getStateStyle(st[a], d)]

AppEvents == app[1].nEvents + app[2].nEvents + app[3].nEvents

\* the StateMap of the i-th moodlet once its queued updates are applied
AppPending(i) == ApplyQueue(app[i].states, app[i].queue)

\* the handler handleClick(item, isRightClick) of the i-th moodlet, run on
\* one event; onChange={handleStateChange} is given to every moodlet
AppHandleClick(i, item, isRightClick) ==
    LET h == Hook(i)
        newState == IF isRightClick THEN "NOT_REQUIRED"
                    ELSE getNextState(app[h].states[item])
    IN  /\ app # NoApp
        /\ AppEvents < MaxEvents
        /\ Len(app[h].queue) < MaxBatch
        /\ IF ~app[i].disabled
           THEN app' = [app EXCEPT
                   ![i].nEvents = @ + 1,
                   ![h].queue = Append(@, [item |-> item, newState |-> newState]),
                   ![i].nCalls = @ + 1,
                   ![i].lastCall = [item |-> item, newState |-> newState]]
           ELSE app' = [app EXCEPT ![i].nEvents = @ + 1]
        /\ UNCHANGED <<initialStates, disabled, onChangeProvided, mounted,
                       states, queue, nEvents, nAccepted, nCalls, lastCall,
                       variant, notified, classes, joined>>

\* React renders the tree: every moodlet's queued updates are applied
AppRender ==
    /\ app # NoApp
    /\ \E i \in Instance : app[i].queue # <<>>
    /\ app' = [i \in Instance |->
                  [app[i] EXCEPT !.states = AppPending(i), !.queue = <<>>,
                                 !.style = RenderStyles(AppPending(i), app[i].disabled)]]
    /\ UNCHANGED <<initialStates, disabled, onChangeProvided, mounted,
                   states, queue, nEvents, nAccepted, nCalls, lastCall,
                   variant, notified, classes, joined>>

InitApp ==
    /\ Construct([a \in FSCAction |-> Absent], "letter", FALSE, FALSE)
    /\ classes = <<>>
    /\ joined = NotJoined
    /\ app = [i \in Instance |->
                 [variant |-> AppProps[i].variant,
                  disabled |-> AppProps[i].disabled,
                  initialStates |-> AppProps[i].initialStates,
                  states |-> InitializeStates(AppProps[i].initialStates),
                  style |-> RenderStyles(InitializeStates(AppProps[i].initialStates),
                                         AppProps[i].disabled),
                  queue |-> <<>>,
                  nEvents |-> 0,
                  nCalls |-> 0,
                  lastCall |-> NoCall]]

NextApp ==
    \/ \E i \in Instance : \E item \in FSCAction : \E isRightClick \in BOOLEAN :
          AppHandleClick(i, item, isRightClick)
    \/ AppRender

SpecApp == InitApp /\ [][NextApp]_vars

\* ------------------------------------------------------------------ claims
\* the transition table of the specification, section 4.1
NextTable ==
    [s \in FSCState |->
        CASE s = "NOT_REQUIRED" -> "REQUIRED"
          [] s = "REQUIRED"     -> "CURRENT"
          [] s = "CURRENT"      -> "COMPLETED"
          [] s = "COMPLETED"    -> "CURRENT"]

\* the initialStates of App's first moodlet
AppInitialStates ==
    [a \in FSCAction |->
        CASE a = "FUELLING"  -> "REQUIRED"
          [] a = "SERVICING" -> "CURRENT"
          [] a = "CLEANING"  -> "COMPLETED"]

\* initialStates = { SERVICING: 'CURRENT' }
ExampleInitialStates ==
    [a \in FSCAction |-> IF a = "SERVICING" THEN "CURRENT" ELSE Absent]

\* C1: with disabled false and StateMap[A] = s at the last render, a primary
\* activation on A leaves StateMap[A] = next(s) once its update is applied,
\* and the render that follows makes exactly that the StateMap.
C1_PrimaryAdvances ==
    [][ /\ \A item \in FSCAction :
              (onClick(item) /\ ~disabled /\ states[item] \in FSCState)
                  => Pending'[item] = NextTable[states[item]]
        /\ (queue # <<>> /\ queue' = <<>>) => states' = Pending ]_vars

C1_Witness ==
    /\ ~disabled
    /\ nEvents = 1
    /\ queue = <<>>
    /\ initialStates["SERVICING"] = "COMPLETED"
    /\ states["SERVICING"] = "CURRENT"

\* C2: with disabled true no activation, primary or secondary, changes the
\* StateMap or queues an update, and onChange is never invoked, whatever the
\* sequence of activations.
C2_DisabledIsInert ==
    disabled =>
        /\ states = InitializeStates(initialStates)
        /\ queue = <<>>
        /\ nAccepted = 0
        /\ nCalls = 0
        /\ lastCall = NoCall

C2_Witness ==
    /\ disabled
    /\ mounted
    /\ onChangeProvided
    /\ nEvents >= 2

\* C3: with disabled false a secondary activation on A, from any State, sets
\* StateMap[A] to NotRequired and, when onChange is provided, calls
\* onChange(A, NotRequired).
C3_SecondaryResets ==
    [][ \A item \in FSCAction :
            (onContextMenu(item) /\ ~disabled) =>
                /\ Pending'[item] = "NOT_REQUIRED"
                /\ queue' = Append(queue, [item |-> item, newState |-> "NOT_REQUIRED"])
                /\ onChangeProvided =>
                      /\ nCalls' = nCalls + 1
                      /\ lastCall' = [item |-> item, newState |-> "NOT_REQUIRED"] ]_vars

C3_Witness ==
    /\ ~disabled
    /\ onChangeProvided
    /\ nEvents = 1
    /\ queue = <<>>
    /\ initialStates["CLEANING"] = "COMPLETED"
    /\ states["CLEANING"] = "NOT_REQUIRED"
    /\ lastCall = [item |-> "CLEANING", newState |-> "NOT_REQUIRED"]

\* C4: an activation on A changes no entry but A's: for every other Action B
\* StateMap[B] is the same before and after, both as rendered and with the
\* queued updates applied; a render changes only Actions with a queued update.
C4_OtherKeysUntouched ==
    [][ /\ \A item \in FSCAction : \A isRightClick \in BOOLEAN :
              handleClick(item, isRightClick) =>
                  \A b \in FSCAction \ {item} :
                      /\ Pending'[b] = Pending[b]
                      /\ states'[b] = states[b]
        /\ \A b \in FSCAction :
              (\A i \in 1..Len(queue) : queue[i].item # b) => states'[b] = states[b] ]_vars

C4_Witness ==
    /\ ~disabled
    /\ initialStates = AppInitialStates
    /\ nEvents = 2
    /\ Len(queue) = 2
    /\ queue[1].item = "FUELLING"
    /\ queue[2].item = "SERVICING"
    /\ Pending = [AppInitialStates EXCEPT !["FUELLING"] = "CURRENT",
                                          !["SERVICING"] = "NOT_REQUIRED"]

\* C5: in every reachable state the StateMap has exactly the keys Fuelling,
\* Servicing and Cleaning, each holding one of the four States, for every
\* partial initialStates.
C5_AllKeysHoldAState ==
    /\ DOMAIN states = FSCAction
    /\ \A a \in FSCAction : states[a] \in FSCState

\* C6: at construction every Action given a State in initialStates holds
\* that State and every other Action holds Required.
C6_MergeOverDefault ==
    (nEvents = 0) =>
        \A a \in FSCAction :
            states[a] = IF initialStates[a] \in FSCState
                        THEN initialStates[a] ELSE "REQUIRED"

\* C7: under primary activations only, an Action that starts in Required
\* goes Required, Current, Completed, Current, Completed, ...: every render
\* of an update to it moves it, Required only to Current, Current only to
\* Completed, Completed only to Current.
C7_RequiredCycle ==
    [][ \A item \in FSCAction :
            initialStates[item] \in {Absent, "REQUIRED"} =>
                /\ states[item] = "REQUIRED" => states'[item] \in {"REQUIRED", "CURRENT"}
                /\ states[item] = "CURRENT" => states'[item] \in {"CURRENT", "COMPLETED"}
                /\ states[item] = "COMPLETED" => states'[item] \in {"COMPLETED", "CURRENT"}
                /\ (queue' = <<>> /\ \E i \in 1..Len(queue) : queue[i].item = item)
                      => states'[item] # states[item] ]_vars

C7_Witness ==
    /\ initialStates = [a \in FSCAction |-> Absent]
    /\ nEvents = 3
    /\ queue = <<>>
    /\ states = [DefaultStates EXCEPT !["FUELLING"] = "CURRENT"]

\* C8: StateMap[A] goes from another State to NotRequired only by a
\* secondary activation on A; a primary activation never queues NotRequired,
\* and a render puts NotRequired only where a queued update says so.
C8_OnlySecondaryResets ==
    [][ \A item \in FSCAction :
            /\ (Pending[item] # "NOT_REQUIRED" /\ Pending'[item] = "NOT_REQUIRED")
                  => (onContextMenu(item) /\ ~disabled)
            /\ (onClick(item) /\ ~disabled)
                  => queue'[Len(queue')].newState # "NOT_REQUIRED"
            /\ (states[item] # "NOT_REQUIRED" /\ states'[item] = "NOT_REQUIRED")
                  => \E i \in 1..Len(queue) :
                        queue[i] = [item |-> item, newState |-> "NOT_REQUIRED"] ]_vars

C8_Witness ==
    /\ ~disabled
    /\ nEvents = 1
    /\ queue = <<>>
    /\ initialStates["FUELLING"] = "CURRENT"
    /\ states["FUELLING"] = "NOT_REQUIRED"

\* C9: with disabled false and onChange provided every activation calls
\* onChange exactly once, with the activated Action and the State written
\* for it; the calls number the accepted activations; from
\* initialStates = {Servicing: Current} one primary activation of Fuelling
\* gives {Fuelling: Current, Servicing: Current, Cleaning: Required} and one
\* call onChange(Fuelling, Current).
C9_NotifiesOncePerAccepted ==
    /\ [](nCalls = IF onChangeProvided THEN nAccepted ELSE 0)
    /\ [][ \A item \in FSCAction : \A isRightClick \in BOOLEAN :
              (handleClick(item, isRightClick) /\ ~disabled /\ onChangeProvided) =>
                  /\ nCalls' = nCalls + 1
                  /\ lastCall' = queue'[Len(queue')]
                  /\ lastCall' = [item |-> item, newState |-> Pending'[item]] ]_vars
    /\ [][ (/\ nEvents = 0
            /\ initialStates = ExampleInitialStates
            /\ ~disabled
            /\ onChangeProvided
            /\ onClick("FUELLING")) =>
                  /\ Pending' = [DefaultStates EXCEPT !["FUELLING"] = "CURRENT",
                                                      !["SERVICING"] = "CURRENT"]
                  /\ nCalls' = 1
                  /\ lastCall' = [item |-> "FUELLING", newState |-> "CURRENT"] ]_vars

C9_Witness ==
    /\ initialStates = ExampleInitialStates
    /\ ~disabled
    /\ onChangeProvided
    /\ nEvents = 1
    /\ nCalls = 1
    /\ lastCall = [item |-> "FUELLING", newState |-> "CURRENT"]
    /\ queue = <<>>
    /\ states = [DefaultStates EXCEPT !["FUELLING"] = "CURRENT",
                                      !["SERVICING"] = "CURRENT"]

\* C10, as claimed: at the moment onChange(A, s) runs the transition has
\* been applied, StateMap[A] = s.
C10_AppliedWhenNotified ==
    [][ nCalls' = nCalls + 1 => states'[lastCall'.item] = lastCall'.newState ]_vars

\* C10, amended: at the moment onChange(A, s) runs the update A := s is the
\* last one queued and not yet applied: the StateMap is still the one of the
\* last render, and StateMap[A] = s once the queue is applied.
C10_QueuedWhenNotified ==
    [][ nCalls' = nCalls + 1 =>
            /\ states' = states
            /\ queue' = Append(queue, lastCall')
            /\ Pending'[lastCall'.item] = lastCall'.newState ]_vars

C10_Witness ==
    /\ onChangeProvided
    /\ nCalls = 1
    /\ queue = <<[item |-> "CLEANING", newState |-> "COMPLETED"]>>
    /\ lastCall = [item |-> "CLEANING", newState |-> "COMPLETED"]
    /\ states["CLEANING"] = "CURRENT"

\* C11: after construction only an activation taken with disabled false
\* changes the StateMap: it alone changes what the queued updates make of
\* the StateMap, a render writes nothing but those updates, and a render
\* with changed props (initialStates, variant, disabled, onChange) leaves
\* the StateMap as it is.
C11_OnlyActivationsMutate ==
    [][ /\ Pending' # Pending =>
              \E item \in FSCAction : \E isRightClick \in BOOLEAN :
                  handleClick(item, isRightClick) /\ ~disabled
        /\ states' # states => (queue # <<>> /\ queue' = <<>> /\ states' = Pending)
        /\ <<initialStates, variant, disabled, onChangeProvided>>'
              # <<initialStates, variant, disabled, onChangeProvided>>
              => (Pending' = Pending /\ (queue = <<>> => states' = states)) ]_vars

C11_Witness ==
    /\ nEvents = 1
    /\ queue = <<>>
    /\ initialStates = [a \in FSCAction |-> Absent]
    /\ variant = "word"
    /\ disabled
    /\ states = [a \in FSCAction |->
                    CASE a = "FUELLING"  -> "NOT_REQUIRED"
                      [] a = "SERVICING" -> "REQUIRED"
                      [] a = "CLEANING"  -> "COMPLETED"]

\* C12: the moodlets of App are independent: an activation on one changes
\* nothing of any other, neither its StateMap, rendered or with its queue
\* applied, nor its onChange calls, and a render gives every moodlet its own
\* queued updates only; the disabled moodlet never changes.
C12_InstancesIndependent ==
    /\ [][ /\ \A i \in Instance : \A item \in FSCAction : \A isRightClick \in BOOLEAN :
                 AppHandleClick(i, item, isRightClick) =>
                     \A j \in Instance \ {i} :
                         /\ app'[j] = app[j]
                         /\ ApplyQueue(app'[j].states, app'[j].queue)
                               = ApplyQueue(app[j].states, app[j].queue)
           /\ \A j \in Instance :
                 app'[j].states # app[j].states =>
                     /\ app[j].queue # <<>>
                     /\ \A a \in FSCAction :
                           app'[j].states[a] # app[j].states[a] =>
                               \E k \in 1..Len(app[j].queue) :
                                   app[j].queue[k].item = a ]_vars
    /\ [](app # NoApp =>
             /\ app[3].states = InitializeStates(AppProps[3].initialStates)
             /\ app[3].queue = <<>>
             /\ app[3].nCalls = 0)

C12_Witness ==
    /\ app # NoApp
    /\ app[1].nEvents = 1
    /\ app[1].states = [AppProps[1].initialStates EXCEPT !["FUELLING"] = "CURRENT"]
    /\ app[1].lastCall = [item |-> "FUELLING", newState |-> "CURRENT"]
    /\ app[2].nEvents = 1
    /\ app[2].queue = <<[item |-> "CLEANING", newState |-> "NOT_REQUIRED"]>>
    /\ app[2].states = AppProps[2].initialStates
    /\ app[3].nEvents = 1
    /\ app[3].states = AppProps[3].initialStates

\* the classes joinClassNames is to keep: defined and not empty
PresentTokens(seq) ==
    LET Present(c) == c \in STRING /\ c # Undefined /\ Len(c) > 0
    IN  SelectSeq(seq, Present)

\* the pieces of str between single spaces
RECURSIVE Pieces(_, _)
Pieces(str, piece) ==
    IF str = "" THEN <<piece>>
    ELSE IF Head(str) = " " THEN <<piece>> \o Pieces(Tail(str), "")
    ELSE Pieces(Tail(str), piece \o Head(str))

\* C13: joinClassNames gives exactly the present classes (defined and not
\* empty), in their order, with single spaces in between:
\* join('a', undefined, 'b') = "a b" and join() = "".
C13_JoinsPresentTokens ==
    joined # NotJoined =>
        /\ PresentTokens(classes) = <<>> => joined = ""
        /\ PresentTokens(classes) # <<>> => Pieces(joined, "") = PresentTokens(classes)
        /\ classes = <<"a", Undefined, "b">> => joined = "a b"
        /\ classes = <<>> => joined = ""

C13_Witness ==
    /\ classes = <<"a", "", "cd">>
    /\ joined = "a cd"

\* the buttons of App: a moodlet and an Action
Control == Instance \X FSCAction

\* C14, as claimed: the style of a button is a function of its Action's
\* State alone, one style per State: two buttons get the same style exactly
\* when their Actions are in the same State.
C14_StyleByStateOnly ==
    app # NoApp =>
        \A c, e \in Control :
            (app[c[1]].style[c[2]] = app[e[1]].style[e[2]])
                <=> (app[c[1]].states[c[2]] = app[e[1]].states[e[2]])

\* C14, amended: the style of a button is a function of its Action's State
\* and of its moodlet's disabled prop; the four States have four distinct
\* style classes, so two buttons in different States never get the same
\* style, and two buttons in the same State get the same style exactly when
\* their moodlets agree on disabled (always, inside one moodlet).
C14_StyleByStateAndDisabled ==
    app # NoApp =>
        /\ \A c, e \in Control :
              (app[c[1]].style[c[2]] = app[e[1]].style[e[2]])
                  <=> /\ app[c[1]].states[c[2]] = app[e[1]].states[e[2]]
                      /\ app[c[1]].disabled = app[e[1]].disabled
        /\ \A c \in Control :
              \E s \in FSCState :
                  /\ app[c[1]].states[c[2]] = s
                  /\ app[c[1]].style[c[2]] \in
                        { baseStyle \o " " \o styles[s],
                          baseStyle \o " " \o styles[s] \o " opacity-50 cursor-not-allowed" }
        /\ Cardinality({styles[s] : s \in FSCState}) = 4

C14_Witness ==
    /\ app # NoApp
    /\ app[1].nEvents = 1
    /\ app[1].queue = <<>>
    /\ app[1].states["FUELLING"] = "CURRENT"
    /\ app[1].style["FUELLING"] = app[1].style["SERVICING"]
    /\ app[1].style["FUELLING"] # app[3].style["SERVICING"]
    /\ app[1].style["FUELLING"] # app[1].style["CLEANING"]

\* C15: with onChange provided, once the queued updates are applied the
\* StateMap holds for every Action the State of its latest onChange call,
\* or its initial State if onChange was never called for it; also when
\* several activations are handled before a render.
C15_ObserverConsistent ==
    (mounted /\ onChangeProvided) =>
        \A a \in FSCAction :
            /\ Pending[a] = IF notified[a] = NotNotified
                            THEN InitializeStates(initialStates)[a]
                            ELSE notified[a]
            /\ queue = <<>> => states[a] = Pending[a]

C15_Witness ==
    /\ onChangeProvided
    /\ nCalls = 2
    /\ initialStates["FUELLING"] = "COMPLETED"
    /\ states["FUELLING"] = "COMPLETED"
    /\ queue = <<[item |-> "FUELLING", newState |-> "CURRENT"],
                 [item |-> "FUELLING", newState |-> "NOT_REQUIRED"]>>
    /\ notified["FUELLING"] = "NOT_REQUIRED"
    /\ notified["SERVICING"] = NotNotified

\* the queue holds nothing but primary activations on item
OnlyClicksOn(item) ==
    /\ queue # <<>>
    /\ \A k \in 1..Len(queue) :
          queue[k] = [item |-> item, newState |-> NextTable[states[item]]]

\* C16: a primary activation takes the next State from the StateMap of the
\* last render: when k >= 2 primary activations on A are handled before the
\* render, from the rendered State s, every one queues A := next(s) and calls
\* onChange(A, next(s)), and the render leaves StateMap[A] = next(s), one
\* step of the table and not two.
C16_StaleSnapshot ==
    /\ [][ \A item \in FSCAction :
              /\ (OnlyClicksOn(item) /\ onClick(item) /\ ~disabled) =>
                    /\ queue' = Append(queue, queue[1])
                    /\ Pending'[item] = NextTable[states[item]]
                    /\ onChangeProvided =>
                          (nCalls' = nCalls + 1 /\ lastCall' = lastCall)
              /\ (OnlyClicksOn(item) /\ Len(queue) >= 2 /\ queue' = <<>>) =>
                    /\ states'[item] = NextTable[states[item]]
                    /\ states'[item] # NextTable[NextTable[states[item]]] ]_vars
    /\ [](\A item \in FSCAction :
              (mounted /\ onChangeProvided /\ OnlyClicksOn(item)) =>
                  /\ lastCall = queue[1]
                  /\ nCalls >= Len(queue))

C16_Witness ==
    /\ onChangeProvided
    /\ initialStates = [a \in FSCAction |-> Absent]
    /\ nEvents = 2
    /\ nCalls = 2
    /\ queue = <<>>
    /\ states = [DefaultStates EXCEPT !["SERVICING"] = "CURRENT"]
    /\ lastCall = [item |-> "SERVICING", newState |-> "CURRENT"]

\* activations it takes to bring one Action from State s to State t: clicks
\* along the flow where t lies ahead, else a right click and then clicks
StepsTo(s, t) ==
    CASE s = t -> 0
      [] t = "NOT_REQUIRED" -> 1
      [] t = "REQUIRED" -> IF s = "NOT_REQUIRED" THEN 1 ELSE 2
      [] t = "CURRENT" -> IF s = "NOT_REQUIRED" THEN 2 ELSE 1
      [] t = "COMPLETED" ->
            CASE s = "NOT_REQUIRED" -> 3
              [] s = "REQUIRED" -> 2
              [] s = "CURRENT" -> 1

Advanced == {"CURRENT", "COMPLETED"}

\* C17: with disabled false there is no trap: in every rendered StateMap,
\* for every Action and every State t it is not in, an activation on that
\* Action is enabled that brings it a step nearer to t and leaves the other
\* Actions alone, and the render that applies it is enabled, so every one of
\* the 4^3 StateMaps is reached from every StateMap in at most nine
\* activations.  Primary activations alone never take an Action out of
\* Current and Completed: only a secondary activation on it does.
C17_NoTrapStates ==
    /\ []((mounted /\ ~disabled /\ queue = <<>> /\ nEvents < MaxEvents) =>
             \A item \in FSCAction : \A t \in FSCState \ {states[item]} :
                 \E isRightClick \in BOOLEAN :
                     ENABLED (/\ handleClick(item, isRightClick)
                              /\ StepsTo(Pending'[item], t) < StepsTo(states[item], t)
                              /\ \A b \in FSCAction \ {item} : Pending'[b] = states[b]))
    /\ []((mounted /\ queue # <<>>) =>
             ENABLED (Render /\ states' = Pending /\ queue' = <<>>))
    /\ [][ \A item \in FSCAction :
              /\ (Pending[item] \in Advanced /\ Pending'[item] \notin Advanced)
                    => (onContextMenu(item) /\ ~disabled)
              /\ (onClick(item) /\ ~disabled /\ states[item] \in Advanced)
                    => Pending'[item] \in Advanced
              /\ (states[item] \in Advanced /\ states'[item] \notin Advanced)
                    => /\ states'[item] = "NOT_REQUIRED"
                       /\ \E k \in 1..Len(queue) :
                             queue[k] = [item |-> item, newState |-> "NOT_REQUIRED"] ]_vars

C17_Witness ==
    /\ ~disabled
    /\ nEvents = 2
    /\ queue = <<>>
    /\ initialStates["CLEANING"] = "COMPLETED"
    /\ states["CLEANING"] = "REQUIRED"
    /\ states["FUELLING"] = InitializeStates(initialStates)["FUELLING"]
====
